---- MODULE Spec2Model ----
(***************************************************************************)
(* A model of combine.py (MarkdownToPDFCompiler): front-matter extraction, *)
(* Markdown normalisation, file collection, TOC generation, output-path    *)
(* resolution and the render step with its temporary file.                 *)
(*                                                                         *)
(* Text is modelled character by character: a Python str is a sequence of  *)
(* one-character strings.  Fixed template literals that no operation of    *)
(* the program inspects again are kept as single multi-character elements. *)
(* A Python value is a record tagged by "kind".                            *)
(***************************************************************************)
EXTENDS Integers, Sequences, FiniteSets, TLC

VARIABLES
    pc,             \* position of the running operation
    content,        \* the text handed to a text transformation
    loaded,         \* what yaml.safe_load answered, when it was called
    result,         \* what the transformation returned
    again,          \* what the transformation returned on its own output
    base_dir,       \* the directory tree handed to collect_markdown_files
    md_files,       \* list of document records
    toc,            \* text returned by generate_custom_toc
    force_overwrite, \* the force flag
    outputs,        \* names of the files that exist in assets/files
    prompts,        \* number of input() calls made
    choice,         \* the last answer to the overwrite/rename/cancel prompt
    new_name,       \* the last answer to the new-filename prompt
    output_file,    \* the path get_output_path returned
    document_title, \* the title get_title_from_index returned
    exit_status,    \* the status the process ended with
    temp_md,        \* the temporary markdown file
    written,        \* number of records written to the temporary file
    pandoc_runs,    \* number of times the renderer was invoked
    exception       \* the exception in flight or that ended the process

text_vars == <<content, loaded, result, again, toc>>
run_vars == <<force_overwrite, outputs, prompts, choice, new_name, output_file,
              document_title, exit_status, temp_md, written, pandoc_runs, exception>>
vars == <<pc, text_vars, base_dir, md_files, run_vars>>

Idle == <<>>

\* the variables of compile() while a single function is exercised
RunIdle ==
    /\ force_overwrite = FALSE
    /\ outputs = {}
    /\ prompts = 0
    /\ choice = Idle
    /\ new_name = Idle
    /\ output_file = Idle
    /\ document_title = Idle
    /\ exit_status = Idle
    /\ temp_md = Idle
    /\ written = 0
    /\ pandoc_runs = 0
    /\ exception = Idle

\* the variables of the text transformations while compile() runs
TextIdle ==
    /\ content = Idle
    /\ loaded = Idle
    /\ result = Idle
    /\ again = Idle
    /\ toc = Idle

(***************************************************************************)
(* Bounds of the model.                                                    *)
(***************************************************************************)
MaxContentLen == 6
MaxLines == 3
MaxFiles == 3
MaxTocRecords == 2
MaxPrompts == 3

(***************************************************************************)
(* Python str operations on character sequences.                           *)
(***************************************************************************)
SetMin(S) == CHOOSE m \in S : \A o \in S : m <= o

IsSpace(c) == c \in {" ", "\n", "\t"}

RECURSIVE lstrip(_)
lstrip(s) ==
    IF s = <<>> THEN s
    ELSE IF IsSpace(Head(s)) THEN lstrip(Tail(s)) ELSE s

RECURSIVE rstrip(_)
rstrip(s) ==
    IF s = <<>> THEN s
    ELSE IF IsSpace(s[Len(s)]) THEN rstrip(SubSeq(s, 1, Len(s) - 1)) ELSE s

strip(s) == rstrip(lstrip(s))

startswith(s, p) == Len(s) >= Len(p) /\ SubSeq(s, 1, Len(p)) = p

endswith(s, p) == Len(s) >= Len(p) /\ SubSeq(s, Len(s) - Len(p) + 1, Len(s)) = p

\* s[a:b] with 0 <= a, Python's 0-based half-open slice
Slice(s, a, b) == SubSeq(s, a + 1, IF b > Len(s) THEN Len(s) ELSE b)

\* s.find(p, start): 0-based index of the first occurrence at or after start, -1 if none
find(s, p, start) ==
    LET hits == {i \in start..(Len(s) - Len(p)) : SubSeq(s, i + 1, i + Len(p)) = p}
    IN  IF hits = {} THEN -1 ELSE SetMin(hits)

\* p in s
contains(s, p) == find(s, p, 0) # -1

\* s.replace(c, r) for a one-character c
RECURSIVE replace(_, _, _)
replace(s, c, r) ==
    IF s = <<>> THEN <<>>
    ELSE (IF Head(s) = c THEN r ELSE <<Head(s)>>) \o replace(Tail(s), c, r)

\* s.split(sep) for a one-character sep: always at least one piece
RECURSIVE split(_, _)
split(s, sep) ==
    LET i == find(s, <<sep>>, 0)
    IN  IF i = -1 THEN <<s>>
        ELSE <<Slice(s, 0, i)>> \o split(Slice(s, i + 1, Len(s)), sep)

\* sep.join(pieces)
RECURSIVE join(_, _)
join(pieces, sep) ==
    IF pieces = <<>> THEN <<>>
    ELSE IF Len(pieces) = 1 THEN pieces[1]
    ELSE pieces[1] \o <<sep>> \o join(Tail(pieces), sep)

\* all character sequences over alphabet A of length at most n
RECURSIVE TextsUpTo(_, _)
TextsUpTo(A, n) ==
    IF n = 0 THEN {<<>>}
    ELSE LET shorter == TextsUpTo(A, n - 1)
         IN  shorter \cup {Append(t, c) : t \in {u \in shorter : Len(u) = n - 1}, c \in A}

(***************************************************************************)
(* Python values.                                                          *)
(***************************************************************************)
PyStr(s) == [kind |-> "str", s |-> s]
PyInt(n) == [kind |-> "int", n |-> n]
PyNone == [kind |-> "none"]
PyList(items) == [kind |-> "list", items |-> items]
PyDict(d) == [kind |-> "dict", d |-> d]
EmptyDict == PyDict(<<>>)

(***************************************************************************)
(* yaml.safe_load (PyYAML, outside the repository): the value it returns   *)
(* for a block, or yaml.YAMLError.  An empty document loads as None; for   *)
(* any other block the parser's answer is left open.                       *)
(***************************************************************************)
Loaded(v) == [exc |-> "none", value |-> v]
YAMLError == [exc |-> "YAMLError"]

SampleMappings ==
    { <<>>,
      [title |-> PyStr(<<"I">>)],
      [nav_order |-> PyInt(1)],
      [title |-> PyStr(<<"I">>), parent |-> PyStr(<<"A">>)],
      [title |-> PyStr(<<"I">>), parent |-> PyStr(<<"A">>), nav_order |-> PyInt(1)] }

SampleValues ==
    {PyNone, PyStr(<<"a">>), PyInt(1), PyList(<<PyStr(<<"a">>)>>)}
        \cup {PyDict(d) : d \in SampleMappings}

safe_load(block) ==
    IF block = <<>> THEN {Loaded(PyNone)}
    ELSE {YAMLError} \cup {Loaded(v) : v \in SampleValues}

(***************************************************************************)
(* extract_yaml_front_matter.  y is what yaml.safe_load answers when the   *)
(* call is reached.  Returns the pair, or the exception that escapes.      *)
(***************************************************************************)
Delim == <<"-", "-", "-">>

Returned(fm, rest) == [exc |-> "none", front_matter |-> fm, remaining_content |-> rest]
Raised(e) == [exc |-> e]

\* the block handed to yaml.safe_load, when the call is reached
HasBlock(c) == startswith(c, Delim) /\ find(c, Delim, 3) # -1
front_matter_block(c) == strip(Slice(c, 3, find(c, Delim, 3)))

\* a variant that hands back the stripped body when the block fails to parse
extract_keeping_body(c, y) ==
    IF startswith(c, Delim)
    THEN LET end_index == find(c, Delim, 3)
         IN  IF end_index # -1
             THEN LET remaining_content == strip(Slice(c, end_index + 3, Len(c)))
                  IN  IF y.exc = "none"
                      THEN Returned(y.value, remaining_content)
                      ELSE Returned(EmptyDict, remaining_content)
             ELSE Returned(EmptyDict, c)
    ELSE Returned(EmptyDict, c)

extract_yaml_front_matter(c, y) ==
    IF startswith(c, Delim)
    THEN LET end_index == find(c, Delim, 3)
         IN  IF end_index # -1
             THEN LET remaining_content == strip(Slice(c, end_index + 3, Len(c)))
                  IN  IF y.exc = "none"
                      THEN Returned(y.value, remaining_content)
                      ELSE IF y.exc = "YAMLError"
                           THEN Returned(EmptyDict, c)
                           ELSE Raised(y.exc)
             ELSE Returned(EmptyDict, c)
    ELSE Returned(EmptyDict, c)

\* the answers yaml.safe_load can give for content c (one dummy when it is not called)
LoadAnswers(c) == IF HasBlock(c) THEN safe_load(front_matter_block(c)) ELSE {YAMLError}

(***************************************************************************)
(* ensure_proper_markdown_formatting.                                      *)
(***************************************************************************)
\* line.strip().startswith('|') and line.strip().endswith('|')
is_table_line(line) == startswith(strip(line), <<"|">>) /\ endswith(strip(line), <<"|">>)

\* line.strip().startswith('- ')
is_list_item(line) == startswith(strip(line), <<"-", " ">>)

\* the inner while loop: the index just past the table run that starts at i
RECURSIVE table_run_end(_, _)
table_run_end(lines, i) ==
    IF i <= Len(lines) /\ is_table_line(lines[i]) THEN table_run_end(lines, i + 1) ELSE i

\* a variant that forgets the .strip() test on the last emitted line
last_is_any(result_lines) == result_lines # <<>>

\* result_lines and result_lines[-1].strip()
last_is_text(result_lines) ==
    result_lines # <<>> /\ strip(result_lines[Len(result_lines)]) # <<>>

\* the while loop from index i (1-based) with result_lines built so far
RECURSIVE format_lines(_, _, _)
format_lines(lines, i, result_lines) ==
    IF i > Len(lines) THEN result_lines
    ELSE IF is_table_line(lines[i])
    THEN LET before == IF i > 1 /\ ~is_table_line(lines[i - 1]) /\ last_is_text(result_lines)
                       THEN Append(result_lines, <<>>)
                       ELSE result_lines
             j      == table_run_end(lines, i)
             run    == before \o SubSeq(lines, i, j - 1)
             after  == IF j <= Len(lines) /\ ~is_table_line(lines[j]) /\ strip(lines[j]) # <<>>
                       THEN Append(run, <<>>)
                       ELSE run
         IN  format_lines(lines, j, after)
    ELSE LET line   == lines[i]
             before == IF /\ is_list_item(line)
                          /\ i > 1
                          /\ last_is_text(result_lines)
                          /\ ~is_list_item(result_lines[Len(result_lines)])
                       THEN Append(result_lines, <<>>)
                       ELSE result_lines
             with   == Append(before, line)
             after  == IF /\ is_list_item(line)
                          /\ i < Len(lines)
                          /\ ~is_list_item(lines[i + 1])
                          /\ strip(lines[i + 1]) # <<>>
                       THEN Append(with, <<>>)
                       ELSE with
         IN  format_lines(lines, i + 1, after)

(***************************************************************************)
(* re.sub(r'<!--.*?-->\s*\n- ', r'\n\n- ', content): indices are 0-based.  *)
(***************************************************************************)
CommentOpen == <<"<", "!", "-", "-">>
CommentClose == <<"-", "-", ">">>
ItemStart == <<"\n", "-", " ">>

\* \s*\n-  matched at p: the index just past the match, or -1
tail_match(s, p) ==
    LET ends == {k \in p..(Len(s) - 3) :
                    /\ \A q \in (p + 1)..k : IsSpace(s[q])
                    /\ SubSeq(s, k + 1, k + 3) = ItemStart}
    IN  IF ends = {} THEN -1 ELSE SetMin(ends) + 3

\* the whole pattern matched at i: the index just past the match, or -1
\* (.*? takes the fewest characters, none of them a newline)
match_at(s, i) ==
    IF SubSeq(s, i + 1, i + 4) # CommentOpen THEN -1
    ELSE LET closes == {j \in (i + 4)..(Len(s) - 3) :
                           /\ SubSeq(s, j + 1, j + 3) = CommentClose
                           /\ \A q \in (i + 5)..j : s[q] # "\n"
                           /\ tail_match(s, j + 3) # -1}
         IN  IF closes = {} THEN -1 ELSE tail_match(s, SetMin(closes) + 3)

\* every non-overlapping match, leftmost first, replaced by '\n\n- '
RECURSIVE sub_comment_item(_, _)
sub_comment_item(s, pos) ==
    LET starts == {i \in pos..(Len(s) - 4) : match_at(s, i) # -1}
    IN  IF starts = {} THEN Slice(s, pos, Len(s))
        ELSE LET i == SetMin(starts)
             IN  Slice(s, pos, i) \o <<"\n", "\n", "-", " ">>
                     \o sub_comment_item(s, match_at(s, i))

\* a variant that emits every line stripped
RECURSIVE strip_all(_)
strip_all(lines) ==
    IF lines = <<>> THEN <<>> ELSE <<strip(Head(lines))>> \o strip_all(Tail(lines))

ensure_formatting_stripping(c) ==
    LET lines == strip_all(split(c, "\n"))
        result_lines == format_lines(lines, 1, <<>>)
    IN  sub_comment_item(join(result_lines, "\n"), 0)

ensure_proper_markdown_formatting(c) ==
    LET lines == split(c, "\n")
        result_lines == format_lines(lines, 1, <<>>)
    IN  sub_comment_item(join(result_lines, "\n"), 0)

(***************************************************************************)
(* Ordering of Python values: str by code point, int by value.             *)
(***************************************************************************)
CodePoint(c) ==
    CASE c = "\n" -> 10 [] c = " " -> 32 [] c = "#" -> 35 [] c = "&" -> 38
      [] c = "(" -> 40 [] c = ")" -> 41 [] c = "," -> 44 [] c = "-" -> 45
      [] c = "." -> 46 [] c = ":" -> 58 [] c = "A" -> 65 [] c = "B" -> 66
      [] c = "C" -> 67 [] c = "I" -> 73 [] c = "J" -> 74 [] c = "T" -> 84
      [] c = "\\" -> 92 [] c = "_" -> 95 [] c = "a" -> 97 [] c = "b" -> 98
      [] c = "c" -> 99 [] c = "d" -> 100 [] c = "e" -> 101 [] c = "i" -> 105
      [] c = "m" -> 109 [] c = "n" -> 110 [] c = "o" -> 111 [] c = "r" -> 114
      [] c = "s" -> 115 [] c = "t" -> 116 [] c = "x" -> 120 [] c = "|" -> 124

\* s < t for two str
RECURSIVE str_less(_, _)
str_less(s, t) ==
    IF t = <<>> THEN FALSE
    ELSE IF s = <<>> THEN TRUE
    ELSE IF Head(s) = Head(t) THEN str_less(Tail(s), Tail(t))
    ELSE CodePoint(Head(s)) < CodePoint(Head(t))

(***************************************************************************)
(* is_test_file                                                            *)
(***************************************************************************)
TestFilePrefix == 512

test_indicators ==
    { <<"d", "o", "c", "t", "e", "s", "t", ":">>,
      <<"E", "x", "t", "e", "n", "s", "i", "o", "n", ":">>,
      <<"#", " ", "P", "r", "e", "a", "m", "b", "l", "e">> }

is_test_file(c) ==
    \E indicator \in test_indicators : contains(Slice(c, 0, TestFilePrefix), indicator)

(***************************************************************************)
(* process_markdown_file.  A file is its text, whether open() succeeds,    *)
(* and the answer yaml.safe_load gives for its front-matter block.         *)
(* NoRecord is Python's None.                                              *)
(***************************************************************************)
NoRecord == [kind |-> "none"]

TitleKey == [name |-> "title", chars |-> <<"t", "i", "t", "l", "e">>]
ParentKey == [name |-> "parent", chars |-> <<"p", "a", "r", "e", "n", "t">>]

DefaultNavOrder == 999

\* key in v: "yes", "no", or "raise" (TypeError: the value is not a container)
py_in(key, v) ==
    CASE v.kind = "dict" -> IF key.name \in DOMAIN v.d THEN "yes" ELSE "no"
      [] v.kind = "str"  -> IF contains(v.s, key.chars) THEN "yes" ELSE "no"
      [] v.kind = "list" -> IF \E i \in 1..Len(v.items) : v.items[i] = PyStr(key.chars)
                            THEN "yes" ELSE "no"
      [] OTHER           -> "raise"

\* front_matter.get('nav_order', 999)
nav_order_of(d) == IF "nav_order" \in DOMAIN d THEN d.nav_order ELSE PyInt(DefaultNavOrder)

process_markdown_file(filepath, file) ==
    IF ~file.readable THEN NoRecord                      \* open() raised: logged
    ELSE IF is_test_file(file.content) THEN NoRecord
    ELSE LET ext == extract_yaml_front_matter(file.content, file.yaml)
         IN  IF ext.exc # "none" THEN NoRecord           \* except Exception
             ELSE LET front_matter == ext.front_matter
                      body == ensure_proper_markdown_formatting(ext.remaining_content)
                      has_title == py_in(TitleKey, front_matter)
                  IN  IF has_title = "raise" THEN NoRecord
                      ELSE IF has_title = "no" THEN NoRecord
                      ELSE IF py_in(ParentKey, front_matter) # "yes" THEN NoRecord
                      ELSE IF front_matter.kind # "dict" THEN NoRecord  \* no .get
                      ELSE [kind      |-> "record",
                            filepath  |-> filepath,
                            title     |-> front_matter.d.title,
                            parent    |-> front_matter.d.parent,
                            nav_order |-> nav_order_of(front_matter.d),
                            content   |-> body]

(***************************************************************************)
(* collect_markdown_files.  A base directory is the sequence of            *)
(* directories in the order os.walk yields them (top-down; the order of    *)
(* siblings is the file system's) and its files.  A directory is its path  *)
(* below the base directory, a sequence of names; <<>> is the base itself. *)
(***************************************************************************)
\* sorted(names): a set of distinct str in ascending order
RECURSIVE sorted_names(_)
sorted_names(S) ==
    IF S = {} THEN <<>>
    ELSE LET least == CHOOSE n \in S : \A o \in S \ {n} : str_less(n, o)
         IN  <<least>> \o sorted_names(S \ {least})

\* (x['parent'], x['nav_order']) < (y['parent'], y['nav_order']); a variant on parent alone
key_less_parent_only(x, y) == str_less(x.parent.s, y.parent.s)

key_less(x, y) ==
    \/ str_less(x.parent.s, y.parent.s)
    \/ x.parent.s = y.parent.s /\ x.nav_order.n < y.nav_order.n

\* sorted(md_files, key=...): stable, an element goes after every element not greater
RECURSIVE insert_sorted(_, _)
insert_sorted(done, x) ==
    IF done = <<>> THEN <<x>>
    ELSE IF key_less(x, done[Len(done)])
         THEN Append(insert_sorted(SubSeq(done, 1, Len(done) - 1), x), done[Len(done)])
         ELSE Append(done, x)

RECURSIVE sorted_records(_)
sorted_records(records) ==
    IF records = <<>> THEN <<>>
    ELSE insert_sorted(sorted_records(SubSeq(records, 1, Len(records) - 1)),
                       records[Len(records)])

basename(root) == root[Len(root)]

MdSuffix == <<".", "m", "d">>

\* the records of one directory's files, in sorted filename order
RECURSIVE records_of_files(_, _, _)
records_of_files(tree, root, names) ==
    IF names = <<>> THEN <<>>
    ELSE LET file == Head(names)
             rest == records_of_files(tree, root, Tail(names))
         IN  IF endswith(file, MdSuffix)
             THEN LET filepath == [dir |-> root, name |-> file]
                      the_file == CHOOSE f \in tree.files : f.dir = root /\ f.name = file
                      file_data == process_markdown_file(filepath, the_file)
                  IN  IF file_data # NoRecord THEN <<file_data>> \o rest ELSE rest
             ELSE rest

\* whether the walk loop processes the files of root

is_collected_dir(root) ==
    root # <<>> /\ startswith(basename(root), <<"_">>)

\* the for loop over os.walk from the i-th directory on
RECURSIVE walk_from(_, _)
walk_from(tree, i) ==
    IF i > Len(tree.walk) THEN <<>>
    ELSE LET root == tree.walk[i]
             files == {f.name : f \in {g \in tree.files : g.dir = root}}
         IN  (IF is_collected_dir(root)
              THEN records_of_files(tree, root, sorted_names(files))
              ELSE <<>>) \o walk_from(tree, i + 1)

collect_markdown_files(tree) == sorted_records(walk_from(tree, 1))

(***************************************************************************)
(* generate_custom_toc.  The text comes back as [exc |-> "none", text],    *)
(* or the exception a str method raises on a title or parent that is not a *)
(* str.                                                                    *)
(***************************************************************************)
lower_char(c) ==
    CASE c = "A" -> "a" [] c = "B" -> "b" [] c = "C" -> "c" [] c = "I" -> "i"
      [] c = "J" -> "j" [] c = "O" -> "o" [] c = "R" -> "r" [] c = "T" -> "t"
      [] OTHER -> c

RECURSIVE lower(_)
lower(s) == IF s = <<>> THEN <<>> ELSE <<lower_char(Head(s))>> \o lower(Tail(s))

\* title.replace('&', '\\&')
escape_ampersand(s) == replace(s, "&", <<"\\", "&">>)

\* title.lower().replace(' ', '-').replace('(', '').replace(')', '')
\*      .replace(',', '').replace('&', '')
anchor_of(title) ==
    replace(replace(replace(replace(replace(lower(title),
        " ", <<"-">>), "(", <<>>), ")", <<>>), ",", <<>>), "&", <<>>)

Text(t) == [exc |-> "none", text |-> t]

\* the parents of md_files, each once
parents_of(files) == {files[i].parent : i \in 1..Len(files)}

\* sorted(parent_groups.items()) for str parents
RECURSIVE sorted_parents(_)
sorted_parents(S) ==
    IF S = {} THEN <<>>
    ELSE LET least == CHOOSE p \in S : \A o \in S \ {p} : str_less(p.s, o.s)
         IN  <<least>> \o sorted_parents(S \ {least})

toc_entry(file) ==
    <<"-", " ", "[">> \o escape_ampersand(file.title.s) \o <<"]", "(", "#">>
        \o anchor_of(file.title.s) \o <<")", "\n">>

\* the inner for loop over one group's files, in md_files order
RECURSIVE toc_entries(_, _)
toc_entries(files, parent) ==
    IF files = <<>> THEN <<>>
    ELSE (IF Head(files).parent = parent THEN toc_entry(Head(files)) ELSE <<>>)
             \o toc_entries(Tail(files), parent)

\* the outer for loop over the sorted groups
RECURSIVE toc_groups(_, _)
toc_groups(files, parents) ==
    IF parents = <<>> THEN <<>>
    ELSE <<"#", "#", " ">> \o escape_ampersand(Head(parents).s) \o <<"\n", "\n">>
             \o toc_entries(files, Head(parents)) \o <<"\n">>
             \o toc_groups(files, Tail(parents))

\* (every parent is a str in the lists built here; a title may be an int,
\* on which .lower() raises)
generate_custom_toc(files) ==
    IF \E i \in 1..Len(files) : files[i].title.kind # "str"
    THEN Raised("AttributeError")
    ELSE Text(<<"# Table of Contents\n\n">>
                 \o toc_groups(files, sorted_parents(parents_of(files)))
                 \o <<"\n\\newpage\n\n">>)

(***************************************************************************)
(* get_title_from_index                                                    *)
(***************************************************************************)
IndexName == <<"i", "n", "d", "e", "x", ".", "m", "d">>

DefaultTitle ==
    PyStr(<<"D", "o", "c", "u", "m", "e", "n", "t", " ",
            "C", "o", "l", "l", "e", "c", "t", "i", "o", "n">>)

get_title_from_index(tree) ==
    LET index == {f \in tree.files : f.dir = <<>> /\ f.name = IndexName}
    IN  IF index = {} THEN DefaultTitle                  \* os.path.exists is false
        ELSE LET file == CHOOSE f \in index : TRUE
                 ext == extract_yaml_front_matter(file.content, file.yaml)
             IN  IF ~file.readable \/ ext.exc # "none" THEN DefaultTitle
                 ELSE IF py_in(TitleKey, ext.front_matter) # "yes" THEN DefaultTitle
                 ELSE IF ext.front_matter.kind # "dict" THEN DefaultTitle  \* [...] raises
                 ELSE ext.front_matter.d.title

(***************************************************************************)
(* generate_title_page, escape_latex_special_chars, create_temp_markdown.  *)
(***************************************************************************)
generate_title_page(title) ==
    IF title.kind # "str" THEN Raised("AttributeError")
    ELSE Text(<<"\\begin{titlepage}\n\\centering\n\\vspace*{\\fill}\n\n{\\Huge\\bfseries ">>
                 \o escape_ampersand(title.s)
                 \o <<" \\par}\n\n\\vspace{2cm}\n\n{\\Large openaccesspolicies.org \\par}\n\n\\vspace*{\\fill}\n\n\\vfill\n{\\footnotesize CC-BY-SA-4.0 Licensed \\par}\n\n\\end{titlepage}\n\n\\newpage\n\n">>)

RECURSIVE escape_lines(_)
escape_lines(lines) ==
    IF lines = <<>> THEN <<>>
    ELSE <<IF is_table_line(Head(lines)) THEN Head(lines) ELSE escape_ampersand(Head(lines))>>
             \o escape_lines(Tail(lines))

escape_latex_special_chars(c) == join(escape_lines(split(c, "\n")), "\n")

\* what the loop body writes for the i-th record
record_text(files, i) ==
    <<"#", " ">> \o escape_latex_special_chars(files[i].title.s) \o <<"\n", "\n">>
        \o escape_latex_special_chars(files[i].content)
        \o (IF i < Len(files) THEN <<"\n\n\\newpage\n\n">> ELSE <<>>)

(***************************************************************************)
(* get_output_path and handle_existing_file.  A path in assets/files is    *)
(* its file name.                                                          *)
(***************************************************************************)
DirName == <<"d">>
PdfSuffix == <<".", "p", "d", "f">>

\* os.path.join(assets_dir, f'{dir_name}_compiled.pdf')
default_output_file == DirName \o <<"_", "c", "o", "m", "p", "i", "l", "e", "d">> \o PdfSuffix

\* whether handle_existing_file enters the prompt loop; a variant that
\* ignores the force flag
must_prompt_ignoring_force(exists, force) == exists

must_prompt(exists, force) == exists /\ ~force

\* input(...).strip().lower()
read_choice(raw) == lower(strip(raw))

Overwrite == { <<"o">>, <<"o", "v", "e", "r", "w", "r", "i", "t", "e">> }
Rename == { <<"r">>, <<"r", "e", "n", "a", "m", "e">> }
Cancel == { <<"c">>, <<"c", "a", "n", "c", "e", "l">> }

\* what the loop does with a choice: "break", "rename", "exit" or "again"
on_choice(c) ==
    IF c \in Overwrite THEN "break"
    ELSE IF c \in Rename THEN "rename"
    ELSE IF c \in Cancel THEN "exit"
    ELSE "again"

\* what the rename branch does with a name: "return" or "again"; a variant
\* that does not look whether the new path exists
on_new_name_unchecked(name, existing) ==
    IF name # <<>> THEN "return" ELSE "again"

on_new_name(name, existing) ==
    IF name # <<>>
    THEN IF (name \o PdfSuffix) \in existing THEN "again" ELSE "return"
    ELSE "again"

(***************************************************************************)
(* Specification SpecExtract: extract_yaml_front_matter on every text over *)
(* a small alphabet, with and without a leading delimiter.                 *)
(***************************************************************************)
ExtractAlphabet == {"-", "a", " "}

ExtractInputs ==
    LET T == TextsUpTo(ExtractAlphabet, MaxContentLen)
    IN  T \cup {Delim \o t : t \in T}

InitExtract ==
    /\ RunIdle
    /\ pc = "extract"
    /\ content \in ExtractInputs
    /\ loaded = Idle
    /\ result = Idle
    /\ again = Idle
    /\ base_dir = Idle
    /\ md_files = Idle
    /\ toc = Idle

Extract ==
    /\ pc = "extract"
    /\ \E y \in LoadAnswers(content) :
          /\ loaded' = (IF HasBlock(content) THEN y ELSE Idle)
          /\ result' = extract_yaml_front_matter(content, y)
    /\ pc' = "extracted"
    /\ UNCHANGED <<content, again, base_dir, md_files, toc, run_vars>>

NextExtract == Extract

SpecExtract == InitExtract /\ [][NextExtract]_vars
(***************************************************************************)
(* Specification SpecFormat: ensure_proper_markdown_formatting, applied    *)
(* once and then to its own output, on texts of up to MaxLines lines.      *)
(***************************************************************************)
LinePool ==
    { <<>>,                                             \* empty line
      <<" ">>,                                          \* whitespace-only line
      <<"a">>,                                          \* prose
      <<"|", "a", "|">>,                                \* table line
      <<" ", "|", "b", "|", " ">>,                      \* indented table line
      <<"-", " ", "a">>,                                \* list item
      <<"-", " ">>,                                     \* bare bullet
      <<"<", "!", "-", "-", "-", "-", ">">>,            \* HTML comment
      <<"|", "a", "|", "<", "!", "-", "-", "-", "-", ">">>   \* cells, then a comment
    }

RECURSIVE LineLists(_)
LineLists(n) ==
    IF n = 0 THEN {<<>>}
    ELSE LET shorter == LineLists(n - 1)
         IN  shorter \cup {Append(ls, l) : ls \in {u \in shorter : Len(u) = n - 1}, l \in LinePool}

FormatInputs == {join(ls, "\n") : ls \in LineLists(MaxLines) \ {<<>>}}

InitFormat ==
    /\ RunIdle
    /\ pc = "format"
    /\ content \in FormatInputs
    /\ loaded = Idle
    /\ result = Idle
    /\ again = Idle
    /\ base_dir = Idle
    /\ md_files = Idle
    /\ toc = Idle

Format ==
    /\ pc = "format"
    /\ result' = ensure_proper_markdown_formatting(content)
    /\ pc' = "formatted"
    /\ UNCHANGED <<content, loaded, again, base_dir, md_files, toc, run_vars>>

FormatAgain ==
    /\ pc = "formatted"
    /\ again' = ensure_proper_markdown_formatting(result)
    /\ pc' = "reformatted"
    /\ UNCHANGED <<content, loaded, result, base_dir, md_files, toc, run_vars>>

NextFormat == Format \/ FormatAgain

SpecFormat == InitFormat /\ [][NextFormat]_vars
(***************************************************************************)
(* Properties of ensure_proper_markdown_formatting.                        *)
(***************************************************************************)
InLines == split(content, "\n")
OutLines == split(result, "\n")
Formatted == pc \in {"formatted", "reformatted"}

TablePositions(lines) == {i \in 1..Len(lines) : is_table_line(lines[i])}
TableLines(lines) == SelectSeq(lines, is_table_line)
\* the k-th smallest element of a set of positions
Nth(S, k) == CHOOSE p \in S : Cardinality({q \in S : q < p}) = k - 1

\* the table lines of the input sit, verbatim and in order, at the output
\* positions S, and input neighbours are output neighbours
EmbeddedAt(S) ==
    LET I == TablePositions(InLines)
        n == Cardinality(I)
    IN  /\ Cardinality(S) = n
        /\ \A k \in 1..n : OutLines[Nth(S, k)] = InLines[Nth(I, k)]
        /\ \A k \in 1..(n - 1) :
               Nth(I, k + 1) = Nth(I, k) + 1 => Nth(S, k + 1) = Nth(S, k) + 1

\* C7 as stated: the output's table lines are exactly the input's table
\* lines, line for line and in order, and the lines of one input table run
\* stay adjacent.
C7_TableLinesEqual ==
    Formatted =>
        /\ TableLines(OutLines) = TableLines(InLines)
        /\ EmbeddedAt(TablePositions(OutLines))

\* C7 amended: every table line of the input is in the output verbatim, in
\* the same order and with the lines of one run adjacent; the output's
\* table lines are exactly the input's whenever the input holds no "<!--".
C7_InputTablesPreserved ==
    Formatted =>
        /\ \E S \in SUBSET TablePositions(OutLines) : EmbeddedAt(S)
        /\ ~contains(content, CommentOpen) =>
               TableLines(OutLines) = TableLines(InLines)

\* a two-line table run after prose got its blank line and kept its lines
C7_Witness ==
    /\ pc = "formatted"
    /\ \E i \in 2..(Len(InLines) - 1) :
          /\ is_table_line(InLines[i]) /\ is_table_line(InLines[i + 1])
          /\ strip(InLines[i - 1]) # <<>> /\ ~is_table_line(InLines[i - 1])
    /\ Len(OutLines) > Len(InLines)
    /\ TableLines(OutLines) = TableLines(InLines)

\* only table lines, prose lines and blank lines
NoListItems == \A i \in 1..Len(InLines) : ~is_list_item(InLines[i])
\* nor a line that begins with "- " (a bare bullet strips to "-")
NoBulletStart == \A i \in 1..Len(InLines) : ~startswith(InLines[i], <<"-", " ">>)
\* a blank line between every table run and adjacent prose
WellFormatted ==
    \A i \in 1..Len(InLines) :
        is_table_line(InLines[i]) =>
            /\ i > 1 => is_table_line(InLines[i - 1]) \/ strip(InLines[i - 1]) = <<>>
            /\ i < Len(InLines) => is_table_line(InLines[i + 1]) \/ strip(InLines[i + 1]) = <<>>

Idempotent ==
    /\ pc = "reformatted" => again = result
    /\ Formatted /\ WellFormatted => result = content

\* C8 as stated: on input without list-item lines a second application
\* changes nothing, and well-formatted input comes back unchanged.
C8_IdempotentNoLists == NoListItems => Idempotent

\* C8 amended: the same, for input that also has no line beginning "- ".
C8_IdempotentNoBullets == NoListItems /\ NoBulletStart => Idempotent

\* prose next to a table: the first pass inserted a blank, the second none
C8_Witness ==
    /\ pc = "reformatted"
    /\ NoListItems /\ NoBulletStart
    /\ TablePositions(InLines) # {}
    /\ result # content
    /\ again = result
(***************************************************************************)
(* Specification SpecCollect: collect_markdown_files on base directories   *)
(* holding up to MaxFiles files.                                           *)
(***************************************************************************)
DirA == << <<"_", "a">> >>
DirDocs == << <<"d", "o", "c", "s">> >>
DirNested == << <<"d", "o", "c", "s">>, <<"_", "n">> >>
DirSub == << <<"_", "a">>, <<"s", "u", "b">> >>

\* os.walk is top-down; siblings come in the file system's order
WalkOrders ==
    { << <<>>, DirA, DirSub, DirDocs, DirNested >>,
      << <<>>, DirDocs, DirNested, DirA, DirSub >> }

NameA == <<"a", ".", "m", "d">>
NameB == <<"b", ".", "m", "d">>
NameTxt == <<"a", ".", "t", "x", "t">>

\* where a file can be
Places ==
    { [dir |-> <<>>, name |-> NameA],
      [dir |-> DirA, name |-> NameA],
      [dir |-> DirA, name |-> NameB],
      [dir |-> DirA, name |-> NameTxt],
      [dir |-> DirDocs, name |-> NameA],
      [dir |-> DirNested, name |-> NameA],
      [dir |-> DirSub, name |-> NameA] }

FrontMatterText(tag) ==
    <<"-", "-", "-", "\n", tag, "\n", "-", "-", "-", "\n", "x">>

Meta(parent, nav) ==
    [title |-> PyStr(<<"I">>), parent |-> PyStr(<<parent>>), nav_order |-> PyInt(nav)]

\* what a file can hold: its text, and yaml.safe_load's answer for its block
FileKinds ==
    { [readable |-> TRUE, content |-> FrontMatterText("a"), yaml |-> Loaded(PyDict(Meta("A", 1)))],
      [readable |-> TRUE, content |-> FrontMatterText("b"), yaml |-> Loaded(PyDict(Meta("A", 2)))],
      [readable |-> TRUE, content |-> FrontMatterText("c"), yaml |-> Loaded(PyDict(Meta("B", 1)))],
      [readable |-> TRUE, content |-> FrontMatterText("d"),
       yaml |-> Loaded(PyDict([title |-> PyStr(<<"J">>), parent |-> PyStr(<<"A">>)]))],
      [readable |-> TRUE, content |-> FrontMatterText("e"),
       yaml |-> Loaded(PyDict([nav_order |-> PyInt(1)]))],
      [readable |-> TRUE, content |-> <<"-", "-", "-", "\n", "-", "-", "-", "\n", "x">>,
       yaml |-> Loaded(PyNone)],
      [readable |-> TRUE, content |-> <<"#", " ", "P", "r", "e", "a", "m", "b", "l", "e">>,
       yaml |-> YAMLError] }

FileAt(place, kind) ==
    [dir |-> place.dir, name |-> place.name, readable |-> kind.readable,
     content |-> kind.content, yaml |-> kind.yaml]

\* every way to put files of some kind at the places ps
RECURSIVE Fillings(_)
Fillings(ps) ==
    IF ps = {} THEN {{}}
    ELSE LET p == CHOOSE q \in ps : TRUE
         IN  {fs \cup {FileAt(p, k)} : fs \in Fillings(ps \ {p}), k \in FileKinds}

BaseDirs ==
    {[walk |-> w, files |-> fs] :
        w \in WalkOrders,
        fs \in UNION {Fillings(ps) : ps \in {q \in SUBSET Places : Cardinality(q) <= MaxFiles}}}

InitCollect ==
    /\ RunIdle
    /\ pc = "collect"
    /\ base_dir \in BaseDirs
    /\ content = Idle
    /\ loaded = Idle
    /\ result = Idle
    /\ again = Idle
    /\ md_files = Idle
    /\ toc = Idle

Collect ==
    /\ pc = "collect"
    /\ md_files' = collect_markdown_files(base_dir)
    /\ pc' = "collected"
    /\ UNCHANGED <<content, loaded, result, again, base_dir, toc, run_vars>>

NextCollect == Collect

SpecCollect == InitCollect /\ [][NextCollect]_vars
(***************************************************************************)
(* Specification SpecToc: generate_custom_toc on sorted lists of up to     *)
(* MaxTocRecords records.                                                  *)
(***************************************************************************)
TermsAndConditions ==
    <<"T", "e", "r", "m", "s", " ", "&", " ", "C", "o", "n", "d", "i", "t", "i", "o", "n", "s">>

TitlePool ==
    { PyStr(TermsAndConditions),
      PyStr(<<"A", " ", "(", "b", ")", ",", " ", "c">>),
      PyStr(<<"A", "&", "B">>),
      PyStr(<<"a", " ", "b">>),
      PyStr(<<"I">>),
      PyInt(1) }

ParentPool == { PyStr(<<"A">>), PyStr(<<"B", "&", "C">>) }

TocRecords ==
    {[kind |-> "record", filepath |-> [dir |-> DirA, name |-> NameA], title |-> t,
      parent |-> p, nav_order |-> PyInt(n), content |-> <<"x">>] :
        t \in TitlePool, p \in ParentPool, n \in {1, DefaultNavOrder}}

RECURSIVE RecordLists(_)
RecordLists(n) ==
    IF n = 0 THEN {<<>>}
    ELSE LET shorter == RecordLists(n - 1)
         IN  shorter \cup {Append(l, r) : l \in {u \in shorter : Len(u) = n - 1}, r \in TocRecords}

\* collect_markdown_files hands its records over sorted
TocInputs == {sorted_records(l) : l \in RecordLists(MaxTocRecords) \ {<<>>}}

InitToc ==
    /\ RunIdle
    /\ pc = "toc"
    /\ md_files \in TocInputs
    /\ content = Idle
    /\ loaded = Idle
    /\ result = Idle
    /\ again = Idle
    /\ base_dir = Idle
    /\ toc = Idle

GenerateToc ==
    /\ pc = "toc"
    /\ toc' = generate_custom_toc(md_files)
    /\ pc' = "toc_done"
    /\ UNCHANGED <<content, loaded, result, again, base_dir, md_files, run_vars>>

NextToc == GenerateToc

SpecToc == InitToc /\ [][NextToc]_vars

(***************************************************************************)
(* Specification SpecRun: compile(), from reading the title to the end of  *)
(* the render step.  input() blocks, so each prompt is a step; every write *)
(* to the temporary file and the renderer's run are steps of their own.    *)
(***************************************************************************)
WalkOne == << <<>>, DirA, DirSub, DirDocs, DirNested >>

IndexFile(title) ==
    [dir |-> <<>>, name |-> IndexName, readable |-> TRUE,
     content |-> FrontMatterText("g"), yaml |-> Loaded(PyDict([title |-> title]))]

DocFile(name, title, parent, text) ==
    [dir |-> DirA, name |-> name, readable |-> TRUE, content |-> text,
     yaml |-> Loaded(PyDict([title |-> title, parent |-> PyStr(<<parent>>), nav_order |-> PyInt(1)]))]

RunFileSets ==
    { {},
      {IndexFile(PyStr(<<"G">>)), DocFile(NameA, PyStr(<<"I">>), "A", FrontMatterText("a"))},
      {IndexFile(PyStr(<<"G", "&", "H">>)),
       DocFile(NameA, PyStr(<<"I">>), "A", FrontMatterText("a")),
       DocFile(NameB, PyStr(<<"J">>), "B", FrontMatterText("b"))},
      {IndexFile(PyInt(7)), DocFile(NameA, PyStr(<<"I">>), "A", FrontMatterText("a"))},
      {DocFile(NameA, PyInt(2024), "A", FrontMatterText("a"))} }

RawChoices ==
    { <<"o">>, <<" ", "O">>, <<"r">>, <<"R", " ">>, <<"c">>,
      <<"c", "a", "n", "c", "e", "l">>, <<"x">>, <<>> }

RawNames == { <<>>, <<" ">>, <<"n">>, <<" ", "m">>, DirName \o <<"_", "c", "o", "m", "p", "i", "l", "e", "d">> }

OtherOutputs == { <<"n">> \o PdfSuffix }

NoTemp == [created |-> FALSE, exists |-> FALSE, closed |-> FALSE, text |-> <<>>]

InitRun ==
    /\ pc = "start"
    /\ base_dir \in {[walk |-> WalkOne, files |-> fs] : fs \in RunFileSets}
    /\ force_overwrite \in BOOLEAN
    /\ outputs \in {s \cup t : s \in SUBSET {default_output_file}, t \in SUBSET OtherOutputs}
    /\ prompts = 0
    /\ choice = Idle
    /\ new_name = Idle
    /\ output_file = Idle
    /\ document_title = Idle
    /\ exit_status = Idle
    /\ temp_md = NoTemp
    /\ written = 0
    /\ pandoc_runs = 0
    /\ exception = Idle
    /\ md_files = Idle
    /\ TextIdle

\* compile: document_title = self.get_title_from_index()
GetTitle ==
    /\ pc = "start"
    /\ document_title' = get_title_from_index(base_dir)
    /\ pc' = "get_output_path"
    /\ UNCHANGED <<text_vars, base_dir, md_files, force_overwrite, outputs, prompts, choice,
                   new_name, output_file, exit_status, temp_md, written, pandoc_runs, exception>>

\* get_output_path, and handle_existing_file up to its first input() or its return
GetOutputPath ==
    /\ pc = "get_output_path"
    /\ IF must_prompt(default_output_file \in outputs, force_overwrite)
       THEN pc' = "prompt" /\ UNCHANGED output_file
       ELSE pc' = "collect" /\ output_file' = default_output_file
    /\ UNCHANGED <<text_vars, base_dir, md_files, force_overwrite, outputs, prompts, choice,
                   new_name, document_title, exit_status, temp_md, written, pandoc_runs,
                   exception>>

\* one answer to "Would you like to (o)verwrite, (r)ename, or (c)ancel? "
AnswerChoice ==
    /\ pc = "prompt"
    /\ prompts < MaxPrompts
    /\ \E raw \in RawChoices :
          LET c == read_choice(raw)
              todo == on_choice(c)
          IN  /\ choice' = c
              /\ pc' = CASE todo = "break" -> "collect"
                         [] todo = "rename" -> "new_name"
                         [] todo = "exit" -> "exited"
                         [] OTHER -> "prompt"
              /\ output_file' = IF todo = "break" THEN default_output_file ELSE output_file
              /\ exit_status' = IF todo = "exit" THEN 0 ELSE exit_status
    /\ prompts' = prompts + 1
    /\ new_name' = Idle
    /\ UNCHANGED <<text_vars, base_dir, md_files, force_overwrite, outputs, document_title,
                   temp_md, written, pandoc_runs, exception>>

\* one answer to "Enter new filename ..."
AnswerNewName ==
    /\ pc = "new_name"
    /\ \E raw \in RawNames :
          LET n == strip(raw)
              todo == on_new_name(n, outputs)
          IN  /\ new_name' = n
              /\ pc' = IF todo = "return" THEN "collect" ELSE "prompt"
              /\ output_file' = IF todo = "return" THEN n \o PdfSuffix ELSE output_file
    /\ prompts' = prompts + 1
    /\ UNCHANGED <<text_vars, base_dir, md_files, force_overwrite, outputs, choice,
                   document_title, exit_status, temp_md, written, pandoc_runs, exception>>

\* compile: markdown_files = self.collect_markdown_files(), and the empty case
CollectFiles ==
    /\ pc = "collect"
    /\ md_files' = collect_markdown_files(base_dir)
    /\ IF md_files' = <<>>
       THEN pc' = "exited" /\ exit_status' = 0
       ELSE pc' = "create_temp" /\ UNCHANGED exit_status
    /\ UNCHANGED <<text_vars, base_dir, force_overwrite, outputs, prompts, choice, new_name,
                   output_file, document_title, temp_md, written, pandoc_runs, exception>>

\* an exception that leaves create_temp_markdown leaves compile_with_pandoc
\* (the call is before the try) and compile: the process ends with a traceback
Propagate(e) ==
    /\ exception' = e
    /\ pc' = "exited"
    /\ exit_status' = 1

\* create_temp_markdown: tempfile.NamedTemporaryFile(..., delete=False)
OpenTemp ==
    /\ pc = "create_temp"
    /\ \/ /\ temp_md' = [created |-> TRUE, exists |-> TRUE, closed |-> FALSE, text |-> <<>>]
          /\ pc' = "write_title_page"
          /\ UNCHANGED <<exception, exit_status>>
       \/ /\ Propagate("OSError")
          /\ UNCHANGED temp_md
    /\ UNCHANGED <<text_vars, base_dir, md_files, force_overwrite, outputs, prompts, choice,
                   new_name, output_file, document_title, written, pandoc_runs>>

\* temp_md.write(chunk): the chunk is written, or the write raises OSError
WriteOrFail(chunk, next_pc) ==
    \/ /\ temp_md' = [temp_md EXCEPT !.text = @ \o chunk]
       /\ pc' = next_pc
       /\ UNCHANGED <<exception, exit_status>>
    \/ /\ Propagate("OSError")
       /\ UNCHANGED temp_md

\* create_temp_markdown: the title page
WriteTitlePage ==
    /\ pc = "write_title_page"
    /\ LET title_page == generate_title_page(document_title)
       IN  IF title_page.exc # "none"
           THEN Propagate(title_page.exc) /\ UNCHANGED temp_md
           ELSE WriteOrFail(title_page.text, "write_toc")
    /\ UNCHANGED <<text_vars, base_dir, md_files, force_overwrite, outputs, prompts, choice,
                   new_name, output_file, document_title, written, pandoc_runs>>

\* create_temp_markdown: the table of contents
WriteToc ==
    /\ pc = "write_toc"
    /\ LET custom_toc == generate_custom_toc(md_files)
       IN  IF custom_toc.exc # "none"
           THEN Propagate(custom_toc.exc) /\ UNCHANGED <<temp_md, written>>
           ELSE WriteOrFail(custom_toc.text, "write_content") /\ written' = 0
    /\ UNCHANGED <<text_vars, base_dir, md_files, force_overwrite, outputs, prompts, choice,
                   new_name, output_file, document_title, pandoc_runs>>

\* create_temp_markdown: one round of the loop over md_files
WriteRecord ==
    /\ pc = "write_content"
    /\ written < Len(md_files)
    /\ WriteOrFail(record_text(md_files, written + 1), "write_content")
    /\ written' = written + 1
    /\ UNCHANGED <<text_vars, base_dir, md_files, force_overwrite, outputs, prompts, choice,
                   new_name, output_file, document_title, pandoc_runs>>

\* create_temp_markdown: temp_md.close() and return
CloseTemp ==
    /\ pc = "write_content"
    /\ written = Len(md_files)
    /\ \/ /\ temp_md' = [temp_md EXCEPT !.closed = TRUE]
          /\ pc' = "run_pandoc"
          /\ UNCHANGED <<exception, exit_status>>
       \/ /\ Propagate("OSError")
          /\ UNCHANGED temp_md
    /\ UNCHANGED <<text_vars, base_dir, md_files, force_overwrite, outputs, prompts, choice,
                   new_name, output_file, document_title, written, pandoc_runs>>

\* compile_with_pandoc: subprocess.run(cmd, check=True) inside the try.
\* It succeeds and writes the output, exits non-zero (CalledProcessError),
\* cannot be launched (FileNotFoundError), or is interrupted
\* (KeyboardInterrupt, which except Exception does not catch).
RunPandoc ==
    /\ pc = "run_pandoc"
    /\ pandoc_runs' = pandoc_runs + 1
    /\ \/ outputs' = outputs \cup {output_file} /\ exception' = Idle
       \/ \E e \in {"CalledProcessError", "FileNotFoundError", "KeyboardInterrupt"} :
             exception' = e /\ UNCHANGED outputs
    /\ pc' = "finally"
    /\ UNCHANGED <<text_vars, base_dir, md_files, force_overwrite, prompts, choice, new_name,
                   output_file, document_title, exit_status, temp_md, written>>

\* compile_with_pandoc: the except and finally blocks, and the end of compile
Finally ==
    /\ pc = "finally"
    /\ temp_md' = IF temp_md.exists                    \* os.path.exists(temp_md_path)
                  THEN [temp_md EXCEPT !.exists = FALSE]
                  ELSE temp_md
    /\ IF exception = "KeyboardInterrupt"
       THEN exit_status' = 1 /\ UNCHANGED exception
       ELSE exit_status' = 0 /\ exception' = Idle
    /\ pc' = "exited"
    /\ UNCHANGED <<text_vars, base_dir, md_files, force_overwrite, outputs, prompts, choice,
                   new_name, output_file, document_title, written, pandoc_runs>>

NextRun ==
    \/ GetTitle
    \/ GetOutputPath
    \/ AnswerChoice
    \/ AnswerNewName
    \/ CollectFiles
    \/ OpenTemp
    \/ WriteTitlePage
    \/ WriteToc
    \/ WriteRecord
    \/ CloseTemp
    \/ RunPandoc
    \/ Finally

SpecRun == InitRun /\ [][NextRun]_vars

(***************************************************************************)
(* Properties of extract_yaml_front_matter.                                *)
(***************************************************************************)
\* C9: when no extraction completes (no leading delimiter, no closing
\* delimiter, or the block fails to parse) the result is an empty mapping
\* with the original text, and no exception leaves the function.
C9_NoExtractionKeepsOriginal ==
    /\ pc = "extracted"
    /\ \/ ~startswith(content, Delim)
       \/ find(content, Delim, 3) = -1
       \/ loaded = YAMLError
    => result = Returned(EmptyDict, content)

\* a delimited block failed to parse and the text came back with its delimiters
C9_Witness ==
    /\ pc = "extracted"
    /\ HasBlock(content)
    /\ loaded = YAMLError
    /\ result.exc = "none"
    /\ result.front_matter = EmptyDict
    /\ result.remaining_content = content
    /\ startswith(result.remaining_content, Delim)

\* C10: the first component returned is always a mapping, also for an empty
\* block and for a block that parses to a scalar or a list.
C10_FrontMatterIsMapping ==
    pc = "extracted" => result.exc = "none" /\ result.front_matter.kind = "dict"

(***************************************************************************)
(* Properties of collect_markdown_files.                                   *)
(***************************************************************************)
Collected == pc = "collected"
RecordIndexes == IF Collected THEN 1..Len(md_files) ELSE {}

\* C5: every record comes from a .md file in a direct subdirectory of the
\* base directory whose name starts with an underscore.
C5_OnlyDirectUnderscoreDirs ==
    \A i \in RecordIndexes :
        LET path == md_files[i].filepath
        IN  /\ Len(path.dir) = 1
            /\ startswith(path.dir[1], <<"_">>)
            /\ endswith(path.name, MdSuffix)

\* the file a record was made from, and the key its front matter gives it
SourceFile(r) ==
    CHOOSE f \in base_dir.files : f.dir = r.filepath.dir /\ f.name = r.filepath.name
SourceParent(r) == SourceFile(r).yaml.value.d.parent.s
SourceNav(r) ==
    LET d == SourceFile(r).yaml.value.d
    IN  IF "nav_order" \in DOMAIN d THEN d.nav_order.n ELSE 999
WalkIndex(dir) == CHOOSE k \in 1..Len(base_dir.walk) : base_dir.walk[k] = dir
DiscoveredBefore(r, q) ==
    \/ WalkIndex(r.filepath.dir) < WalkIndex(q.filepath.dir)
    \/ r.filepath.dir = q.filepath.dir /\ str_less(r.filepath.name, q.filepath.name)

\* C6: the returned list ascends by (parent, nav_order), an absent
\* nav_order counting as 999, and records with equal keys keep their
\* discovery order (walk order of directories, then filename order).
C6_SortedStable ==
    \A i, j \in RecordIndexes :
        i < j =>
            LET r == md_files[i]
                q == md_files[j]
            IN  /\ r.nav_order.n = SourceNav(r)
                /\ ~str_less(SourceParent(q), SourceParent(r))
                /\ SourceParent(r) = SourceParent(q) => SourceNav(r) <= SourceNav(q)
                /\ SourceParent(r) = SourceParent(q) /\ SourceNav(r) = SourceNav(q)
                       => DiscoveredBefore(r, q)

\* discovered as ("B",1), ("A",2), ("A",1); returned as ("A",1), ("A",2), ("B",1)
C6_Witness ==
    /\ Collected
    /\ Len(md_files) = 3
    /\ <<SourceParent(md_files[1]), SourceNav(md_files[1])>> = <<<<"A">>, 1>>
    /\ <<SourceParent(md_files[2]), SourceNav(md_files[2])>> = <<<<"A">>, 2>>
    /\ <<SourceParent(md_files[3]), SourceNav(md_files[3])>> = <<<<"B">>, 1>>
    /\ DiscoveredBefore(md_files[3], md_files[2])
    /\ DiscoveredBefore(md_files[2], md_files[1])

(***************************************************************************)
(* Properties of generate_custom_toc.                                      *)
(***************************************************************************)
\* the anchor the claim describes: lowercased, spaces to hyphens,
\* parentheses, commas and ampersands removed
RECURSIVE DescribedAnchor(_)
DescribedAnchor(t) ==
    IF t = <<>> THEN <<>>
    ELSE LET c == lower_char(Head(t))
         IN  (IF c = " " THEN <<"-">>
              ELSE IF c \in {"(", ")", ",", "&"} THEN <<>>
              ELSE <<c>>) \o DescribedAnchor(Tail(t))

TocLine(label, anchor) ==
    <<"-", " ", "[">> \o label \o <<"]", "(", "#">> \o anchor \o <<")", "\n">>

TermsLabel ==
    <<"T", "e", "r", "m", "s", " ", "\\", "&", " ",
      "C", "o", "n", "d", "i", "t", "i", "o", "n", "s">>
TermsAnchor ==
    <<"t", "e", "r", "m", "s", "-", "c", "o", "n", "d", "i", "t", "i", "o", "n", "s">>

\* C2: a record titled "Terms & Conditions" gets the entry
\* [Terms \& Conditions](#terms-conditions); every title's anchor is the
\* title lowercased, spaces as hyphens, without parentheses, commas and
\* ampersands, and holds no ampersand.
C2_AnchorOfTitle ==
    pc = "toc_done" /\ toc.exc = "none" =>
        \A i \in 1..Len(md_files) :
            LET title == md_files[i].title.s
            IN  /\ contains(toc.text, TocLine(escape_ampersand(title), DescribedAnchor(title)))
                /\ ~contains(DescribedAnchor(title), <<"&">>)
                /\ title = TermsAndConditions =>
                       contains(toc.text, TocLine(TermsLabel, TermsAnchor))
(***************************************************************************)
(* Properties of compile(): the render step and the output path.           *)
(***************************************************************************)
\* C1: on every exit path of the render step, once the temporary file has
\* been created it no longer exists when the step ends.
C1_TempRemovedOnEveryExit ==
    pc = "exited" /\ temp_md.created => ~temp_md.exists

\* C3: with the force flag set, handle_existing_file never asks for input
\* and returns the default output path.
C3_ForceNeverPrompts ==
    force_overwrite =>
        /\ prompts = 0
        /\ pc \notin {"prompt", "new_name"}
        /\ output_file # Idle => output_file = default_output_file

\* the target existed, force was set, and the default path came back unasked
C3_Witness ==
    /\ force_overwrite
    /\ default_output_file \in outputs
    /\ pc = "collect"
    /\ output_file = default_output_file
    /\ prompts = 0

Recognised == Overwrite \cup Rename \cup Cancel

\* C4: the prompt loop runs only when the target exists and force is not
\* set; it returns the original path only after an overwrite answer; it
\* returns a renamed path only if that path did not exist when checked; an
\* unrecognised answer, an empty name or a name that exists asks again; a
\* cancel answer ends the run with status 0 before anything is collected,
\* any temporary file is created or the renderer is invoked.
C4_PromptLoopEndings ==
    /\ prompts > 0 => ~force_overwrite /\ default_output_file \in outputs
    /\ prompts > 0 /\ pc = "collect" /\ output_file = default_output_file =>
           choice \in Overwrite
    /\ prompts > 0 /\ pc = "collect" /\ output_file # default_output_file =>
           /\ choice \in Rename
           /\ new_name # <<>>
           /\ output_file = new_name \o PdfSuffix
           /\ output_file \notin outputs
    /\ prompts > 0 /\ choice \notin Recognised => pc = "prompt"
    /\ choice \in Overwrite => pc \notin {"prompt", "new_name"} /\ output_file = default_output_file
    /\ /\ choice \in Rename
       /\ new_name # Idle
       /\ pc \in {"prompt", "new_name", "collect"}
       /\ new_name = <<>> \/ (new_name \o PdfSuffix) \in outputs
       => pc = "prompt" /\ output_file = Idle
    /\ choice \in Cancel =>
           /\ pc = "exited"
           /\ exit_status = 0
           /\ output_file = Idle
           /\ md_files = Idle
           /\ ~temp_md.created
           /\ pandoc_runs = 0

\* a first rename hit an existing name and asked again; the second was free
C4_Witness ==
    /\ pc = "collect"
    /\ prompts = 4
    /\ choice \in Rename
    /\ output_file = <<"m">> \o PdfSuffix
    /\ (<<"n">> \o PdfSuffix) \in outputs
    /\ output_file \notin outputs
====
